---- MODULE Spec2Model ----
(***************************************************************************)
(* ShareFeed multi-network coordinator: the secret codec (secrets.ts), the *)
(* network registry (holochain/networks.ts), the networks store           *)
(* (stores/networks.ts) and the per-network shares cache (stores/shares). *)
(*                                                                         *)
(* Strings the codec takes apart are sequences of one-character strings;  *)
(* names, ids and error messages, which the code only compares, are plain *)
(* strings.                                                                *)
(***************************************************************************)
EXTENDS Integers, Sequences, FiniteSets, TLC

Null == "null"

(***************************************************************************)
(* Secret codec: ui/src/lib/secrets.ts                                     *)
(***************************************************************************)

\* JavaScript's \s and String.prototype.trim agree on what whitespace is;
\* the model has two such characters, the space and the tab.
IsWs(c) == c \in {" ", "\t"}

RECURSIVE TrimStart(_)
TrimStart(s) ==
  IF s = <<>> THEN <<>>
  ELSE IF IsWs(Head(s)) THEN TrimStart(Tail(s)) ELSE s

RECURSIVE TrimEnd(_)
TrimEnd(s) ==
  IF s = <<>> THEN <<>>
  ELSE IF IsWs(s[Len(s)]) THEN TrimEnd(SubSeq(s, 1, Len(s) - 1)) ELSE s

\* String.prototype.trim
Trim(s) == TrimEnd(TrimStart(s))

\* s.split(/\s+/): every maximal run of whitespace is one separator; a run at
\* the start or at the end leaves an empty token there, and "" splits to [""].
RECURSIVE SplitWsFrom(_, _, _, _)
SplitWsFrom(s, i, cur, acc) ==
  IF i > Len(s) THEN Append(acc, cur)
  ELSE IF IsWs(s[i])
       THEN IF i > 1 /\ IsWs(s[i - 1])
            THEN SplitWsFrom(s, i + 1, cur, acc)
            ELSE SplitWsFrom(s, i + 1, <<>>, Append(acc, cur))
       ELSE SplitWsFrom(s, i + 1, Append(cur, s[i]), acc)

SplitWs(s) == SplitWsFrom(s, 1, <<>>, <<>>)

\* s.split(ch) for a one-character separator: every occurrence separates.
RECURSIVE SplitOnFrom(_, _, _, _, _)
SplitOnFrom(s, ch, i, cur, acc) ==
  IF i > Len(s) THEN Append(acc, cur)
  ELSE IF s[i] = ch
       THEN SplitOnFrom(s, ch, i + 1, <<>>, Append(acc, cur))
       ELSE SplitOnFrom(s, ch, i + 1, Append(cur, s[i]), acc)

SplitOn(s, ch) == SplitOnFrom(s, ch, 1, <<>>, <<>>)

\* tokens.join(sep)
RECURSIVE Join(_, _)
Join(tokens, sep) ==
  IF tokens = <<>> THEN <<>>
  ELSE IF Len(tokens) = 1 THEN tokens[1]
  ELSE tokens[1] \o sep \o Join(Tail(tokens), sep)

\* s.replace(pat, ''): only the first occurrence of pat is removed.
IsAt(s, pat, i) ==
  /\ i + Len(pat) - 1 <= Len(s)
  /\ \A k \in 1..Len(pat) : s[i + k - 1] = pat[k]

RemoveFirst(s, pat) ==
  LET hits == {i \in 1..Len(s) : IsAt(s, pat, i)}
  IN  IF hits = {} THEN s
      ELSE LET i == CHOOSE j \in hits : \A k \in hits : j <= k
           IN  SubSeq(s, 1, i - 1) \o SubSeq(s, i + Len(pat), Len(s))

SeedPrefix == <<"s", "h", "a", "r", "e", "f", "e", "e", "d", "-">>

passphraseToNetworkSeed(passphrase) ==
  SeedPrefix \o Join(SplitWs(Trim(passphrase)), <<"-">>)

networkSeedToPassphrase(seed) ==
  Join(SplitOn(RemoveFirst(seed, SeedPrefix), "-"), <<" ">>)

WordCount == 5

ErrRequired == "Passphrase is required"
ErrWordCount(got) ==
  "Passphrase must be exactly 5 words (got " \o ToString(got) \o ")"
ErrEmptyWord == "Each word must have at least one character"

\* validatePassphrase that splits the string as given, untrimmed.
validatePassphraseUntrimmed(passphrase) ==
  LET words == SplitWs(passphrase)
  IN  IF passphrase = <<>> THEN [valid |-> FALSE, error |-> ErrRequired]
      ELSE IF Len(words) # WordCount
           THEN [valid |-> FALSE, error |-> ErrWordCount(Len(words))]
      ELSE IF ~(\A k \in 1..Len(words) : Len(words[k]) > 0)
           THEN [valid |-> FALSE, error |-> ErrEmptyWord]
      ELSE [valid |-> TRUE, error |-> Null]

validatePassphrase(passphrase) ==
  LET trimmed == Trim(passphrase)
      words == SplitWs(trimmed)
  IN  IF trimmed = <<>> THEN [valid |-> FALSE, error |-> ErrRequired]
      ELSE IF Len(words) # WordCount
           THEN [valid |-> FALSE, error |-> ErrWordCount(Len(words))]
      ELSE IF ~(\A k \in 1..Len(words) : Len(words[k]) > 0)
           THEN [valid |-> FALSE, error |-> ErrEmptyWord]
      ELSE [valid |-> TRUE, error |-> Null]

isValidPassphrase(passphrase) == validatePassphrase(passphrase).valid


(***************************************************************************)
(* Inputs of the model                                                     *)
(***************************************************************************)

\* generatePassphrase draws five words from the diceware list, which is not
\* part of the repository.  Diceware lists hold hyphenated entries, so the
\* model's list has a plain word and a hyphenated one.  The first word is
\* drawn and the other four are the plain word, which keeps the number of
\* distinct seeds small.
DicewareWords == {<<"a">>, <<"y", "-", "o">>}

PlainWord == <<"a">>

generatePassphrase ==
  {Join(<<w, PlainWord, PlainWord, PlainWord, PlainWord>>, <<" ">>) :
     w \in DicewareWords}

\* The passphrase a caller who joins types: five plain words, which
\* generatePassphrase can draw as well.
TypedPassphrases ==
  {Join(<<PlainWord, PlainWord, PlainWord, PlainWord, PlainWord>>, <<" ">>)}

NoPassphrase == <<>>

CreateNames == {"Books"}
JoinNames == {Null}
NewNames == {"News"}
DefaultJoinName == "Shared Feed"
UnnamedNetwork == "Unnamed Network"

\* The name the conductor gives a clone when the request names none.
CloneNames == {"sharefeed.clone"}

ErrNotConnected == "Not connected to Holochain"
ErrAuthority == "conductor error"
ErrFetch == "zome call failed"

MaxFetch == 3
MaxCalls == 2

(***************************************************************************)
(* Cell ids: ui/src/lib/holochain/networks.ts                              *)
(***************************************************************************)

RECURSIVE Text(_)
Text(s) == IF s = <<>> THEN "" ELSE Head(s) \o Text(Tail(s))

\* The conductor derives a clone's DNA hash from its network seed: equal seeds
\* give equal hashes, different seeds different ones.
DnaHash(seed) == "dna[" \o Text(seed) \o "]"

AgentPubKey == "agent"

CloneCellId(seed) == <<DnaHash(seed), AgentPubKey>>

cellIdToString(cellId) == cellId[1] \o ":" \o cellId[2]

AllPassphrases == generatePassphrase \cup TypedPassphrases

AllCellIds == {CloneCellId(passphraseToNetworkSeed(p)) : p \in AllPassphrases}

\* One id no network of the session ever has.
UnknownId == "dna[?]:agent"

AllIdStrings == {cellIdToString(c) : c \in AllCellIds} \cup {UnknownId}

\* JavaScript truthiness of a string | null value.
Truthy(v) == v # Null /\ v # ""

\* The client's target when no cell is set.
NoCell == <<>>


(***************************************************************************)
(* State                                                                   *)
(***************************************************************************)

VARIABLES
  \* connection.ts: client and shareFeedClient are set together
  connected,
  \* ShareFeedClient: the cell its zome calls address
  clientCell,
  \* the conductor: the clone cells of the app, in the order it reports them
  cells,
  \* localStorage: sharefeed_networks and sharefeed_active_network
  lsNetworks, lsActive,
  \* networks store: _state
  networks, activeNetworkId, nLoading, nError,
  \* conductor requests of the networks store that have not returned yet,
  \* and the number of the next one
  calls, nextCall,
  \* history: what the last createNetwork or joinNetwork returned, null or the
  \* id of the network
  nResult,
  \* shares store
  shares, sLoading, sError, sConnected, hasNetwork, cache, currentNetworkId,
  sClient,
  \* getRecentShares and deleteShareItem calls that have not returned yet, and
  \* the number of the next one
  fetches, nextFetch,
  \* history: the getRecentShares call that returned last
  lastDone,
  \* the codec's input and what validate, encode and decode made of it
  codecPc, codecIn, codecValid, codecSeed, codecBack

connVars == <<connected, clientCell>>
authVars == <<cells>>
lsVars == <<lsNetworks, lsActive>>
netVars == <<networks, activeNetworkId, nLoading, nError, calls, nextCall,
            nResult>>
shareVars == <<shares, sLoading, sError, sConnected, hasNetwork, cache,
               currentNetworkId, sClient, fetches, nextFetch, lastDone>>
codecVars == <<codecPc, codecIn, codecValid, codecSeed, codecBack>>

vars == <<connVars, authVars, lsVars, netVars, shareVars, codecVars>>

\* The shares list before anything was fetched: [].
EmptyShares == [net |-> Null, fetch |-> 0]

\* What a getRecentShares call returns: the records of the cell the call
\* addressed, as the conductor held them for that call.
Fetched(f) == [net |-> cellIdToString(f.target), fetch |-> f.n]

(***************************************************************************)
(* Registry: ui/src/lib/holochain/networks.ts                              *)
(***************************************************************************)

\* Array.prototype.findIndex, 0 for -1.
FindIndex(list, id) ==
  LET hits == {i \in 1..Len(list) : list[i].cellIdString = id}
  IN  IF hits = {} THEN 0 ELSE CHOOSE i \in hits : \A j \in hits : i <= j

Has(list, id) == FindIndex(list, id) # 0

RECURSIVE FilterOut(_, _)
FilterOut(list, id) ==
  IF list = <<>> THEN <<>>
  ELSE IF Head(list).cellIdString = id THEN FilterOut(Tail(list), id)
  ELSE <<Head(list)>> \o FilterOut(Tail(list), id)

\* A save that adds a record whether or not the id has one.
saveNetworkLocallyAppends(data, network) ==
  Append(data, [cellIdString |-> network.cellIdString,
                name |-> network.name,
                passphrase |-> network.passphrase])

\* A save that stores nothing.
saveNetworkLocallySkipped(data, network) == data

saveNetworkLocally(data, network) ==
  LET existing == FindIndex(data, network.cellIdString)
      localData == [cellIdString |-> network.cellIdString,
                    name |-> network.name,
                    passphrase |-> network.passphrase]
  IN  IF existing > 0 THEN [data EXCEPT ![existing] = localData]
      ELSE Append(data, localData)

removeNetworkLocally(data, cellIdString) == FilterOut(data, cellIdString)

updateNetworkName(data, cellIdString, name) ==
  LET i == FindIndex(data, cellIdString)
  IN  IF i > 0 THEN [data EXCEPT ![i].name = name] ELSE data

\* An entry that prefers the conductor's name to the local one.
MergeCellAuthorityFirst(cloned, localData) ==
  LET cellIdString == cellIdToString(cloned.cell_id)
      i == FindIndex(localData, cellIdString)
      localPass == IF i > 0 THEN localData[i].passphrase ELSE <<>>
      localName == IF i > 0 THEN localData[i].name ELSE ""
  IN  [cellId |-> cloned.cell_id,
       cellIdString |-> cellIdString,
       name |-> IF Truthy(cloned.name) THEN cloned.name
                ELSE IF Truthy(localName) THEN localName
                ELSE UnnamedNetwork,
       passphrase |-> IF localPass # <<>> THEN localPass
                      ELSE IF cloned.network_seed # <<>>
                           THEN networkSeedToPassphrase(cloned.network_seed)
                           ELSE <<>>,
       isActive |-> FALSE]

\* One entry of getNetworks for a clone cell the conductor reports.
MergeCell(cloned, localData) ==
  LET cellIdString == cellIdToString(cloned.cell_id)
      i == FindIndex(localData, cellIdString)
      localPass == IF i > 0 THEN localData[i].passphrase ELSE <<>>
      localName == IF i > 0 THEN localData[i].name ELSE ""
  IN  [cellId |-> cloned.cell_id,
       cellIdString |-> cellIdString,
       name |-> IF Truthy(localName) THEN localName
                ELSE IF Truthy(cloned.name) THEN cloned.name
                ELSE UnnamedNetwork,
       passphrase |-> IF localPass # <<>> THEN localPass
                      ELSE IF cloned.network_seed # <<>>
                           THEN networkSeedToPassphrase(cloned.network_seed)
                           ELSE <<>>,
       isActive |-> FALSE]

\* if ('cloned' in cell)
IsCloned(cell) == cell.type = "cloned"

\* A listing that also returns the local records the conductor does not
\* report.
getNetworksKeepStale(cellInfo, localData) ==
  LET cloned == SelectSeq(cellInfo, IsCloned)
      Stale(r) == \A k \in 1..Len(cloned) :
                    cellIdToString(cloned[k].cell_id) # r.cellIdString
      stale == SelectSeq(localData, Stale)
  IN  [k \in 1..Len(cloned) |-> MergeCell(cloned[k], localData)]
        \o [k \in 1..Len(stale) |->
              [cellId |-> NoCell, cellIdString |-> stale[k].cellIdString,
               name |-> stale[k].name, passphrase |-> stale[k].passphrase,
               isActive |-> FALSE]]

getNetworks(cellInfo, localData) ==
  LET cloned == SelectSeq(cellInfo, IsCloned)
  IN  [k \in 1..Len(cloned) |-> MergeCell(cloned[k], localData)]

\* The Network object createNetwork and joinNetwork build from the clone.
NewNetwork(cellId, name, passphrase) ==
  [cellId |-> cellId,
   cellIdString |-> cellIdToString(cellId),
   name |-> name,
   passphrase |-> passphrase,
   isActive |-> FALSE]

(***************************************************************************)
(* The conductor                                                           *)
(***************************************************************************)

CellIndex(cellInfo, cellId) ==
  LET hits == {i \in 1..Len(cellInfo) : cellInfo[i].cell_id = cellId}
  IN  IF hits = {} THEN 0 ELSE CHOOSE i \in hits : TRUE

\* The cell the app is installed with: the conductor reports it under the
\* role of the clones, and it is no clone.
ProvisionedCell ==
  [type |-> "provisioned",
   cell_id |-> CloneCellId(<<>>),
   network_seed |-> <<>>,
   name |-> "sharefeed",
   enabled |-> TRUE]

\* createCloneCell that succeeds: a clone for the seed comes to exist and is
\* enabled.  Whether a second request for a seed that has a clone succeeds is
\* the conductor's choice; when it does, the clone is the one that exists.
Materialize(cellInfo, seed, cloneName) ==
  LET i == CellIndex(cellInfo, CloneCellId(seed))
  IN  IF i > 0 THEN [cellInfo EXCEPT ![i].enabled = TRUE]
      ELSE Append(cellInfo, [type |-> "cloned",
                             cell_id |-> CloneCellId(seed),
                             network_seed |-> seed,
                             name |-> cloneName,
                             enabled |-> TRUE])

\* disableCloneCell that succeeds: the clone stays and is no longer enabled.
Deactivate(cellInfo, cellId) ==
  LET i == CellIndex(cellInfo, cellId)
  IN  IF i > 0 THEN [cellInfo EXCEPT ![i].enabled = FALSE] ELSE cellInfo


(***************************************************************************)
(* Shares store: ui/src/lib/stores/shares (createSharesStore)              *)
(***************************************************************************)

\* client.getRecentShares(): the request is built, with the cell the client
\* addresses at that moment, before the call suspends.  The record of the call
\* keeps, as history, the network displayed when it was made.
LaunchFetch(kind, cellIdString, target) ==
  /\ nextFetch <= MaxFetch
  /\ fetches' = fetches \cup {[kind |-> kind, id |-> cellIdString,
                               target |-> target, n |-> nextFetch,
                               displayed |-> IF kind = "refresh"
                                             THEN currentNetworkId
                                             ELSE cellIdString]}
  /\ nextFetch' = nextFetch + 1
  /\ UNCHANGED lastDone

\* A switch to an uncached network that leaves the view as it is.
SwitchNetworkKeepsView(cellIdString, target) ==
  IF ~sClient /\ ~connected
  THEN UNCHANGED shareVars
  ELSE /\ sClient' = TRUE
       /\ currentNetworkId' = cellIdString
       /\ hasNetwork' = TRUE
       /\ sError' = Null
       /\ UNCHANGED <<cache, sConnected>>
       /\ IF cellIdString \in DOMAIN cache
          THEN /\ shares' = cache[cellIdString]
               /\ UNCHANGED sLoading
               /\ LaunchFetch("background", cellIdString, target)
          ELSE /\ sLoading' = TRUE
               /\ UNCHANGED shares
               /\ LaunchFetch("foreground", cellIdString, target)

\* switchNetwork(cellIdString) up to its first await.  target is the cell the
\* client addresses when switchNetwork runs.
SwitchNetwork(cellIdString, target) ==
  IF ~sClient /\ ~connected
  THEN UNCHANGED shareVars
  ELSE /\ sClient' = TRUE
       /\ currentNetworkId' = cellIdString
       /\ hasNetwork' = TRUE
       /\ sError' = Null
       /\ UNCHANGED <<cache, sConnected>>
       /\ IF cellIdString \in DOMAIN cache
          THEN /\ shares' = cache[cellIdString]
               /\ UNCHANGED sLoading
               /\ LaunchFetch("background", cellIdString, target)
          ELSE /\ sLoading' = TRUE
               /\ shares' = EmptyShares
               /\ LaunchFetch("foreground", cellIdString, target)

\* sharesStore.switchNetwork(cellIdString), called on its own.
switchNetwork(cellIdString) ==
  /\ SwitchNetwork(cellIdString, clientCell)
  /\ UNCHANGED <<connVars, authVars, lsVars, netVars, codecVars>>

\* sharesStore.init(): connect to the conductor.
SharesInit(ok) ==
  /\ ~connected
  /\ hasNetwork' = FALSE
  /\ sLoading' = FALSE
  /\ IF ok
     THEN /\ connected' = TRUE
          /\ sClient' = TRUE
          /\ sConnected' = TRUE
          /\ sError' = Null
     ELSE /\ sError' = ErrNotConnected
          /\ sConnected' = FALSE
          /\ UNCHANGED <<connected, sClient>>
  /\ UNCHANGED <<clientCell, shares, cache, currentNetworkId, fetches, nextFetch,
                 lastDone>>
  /\ UNCHANGED <<authVars, lsVars, netVars, codecVars>>

NoFetch == [kind |-> "none", id |-> Null, target |-> NoCell, n |-> 0,
            displayed |-> Null]

\* History of a call's return: the call, how it ended, and the network that
\* was displayed when it returned.
Returned(f, ok) ==
  lastDone' = [call |-> f, ok |-> ok, displayed |-> currentNetworkId]

\* A guard that lets every result through.
StillOnNetworkUnguarded(f) == TRUE

\* The guard of both fetches: "only update if we're still on the same network".
StillOnNetwork(f) == currentNetworkId = f.id

\* fetchAndCacheShares after its await: try branch (ok) or catch branch.
FetchAndCacheSharesDone(f, ok) ==
  /\ f \in fetches
  /\ f.kind = "foreground"
  /\ ok => f.target # NoCell
  /\ fetches' = fetches \ {f}
  /\ Returned(f, ok)
  /\ IF ok
     THEN /\ IF StillOnNetwork(f)
             THEN shares' = Fetched(f) /\ sLoading' = FALSE
             ELSE UNCHANGED <<shares, sLoading>>
          /\ cache' = (f.id :> Fetched(f)) @@ cache
          /\ UNCHANGED sError
     ELSE /\ IF StillOnNetwork(f)
             THEN sError' = ErrFetch /\ sLoading' = FALSE
             ELSE UNCHANGED <<sError, sLoading>>
          /\ UNCHANGED <<shares, cache>>
  /\ UNCHANGED <<sConnected, hasNetwork, currentNetworkId, sClient, nextFetch>>
  /\ UNCHANGED <<connVars, authVars, lsVars, netVars, codecVars>>

\* A catch that reports the failure the way fetchAndCacheShares does.
BackgroundCatchReports(f) == sError' = ErrFetch /\ sLoading' = FALSE

\* The catch of refreshInBackground: the failure is logged and nothing else.
BackgroundCatch(f) == UNCHANGED <<sError, sLoading>>

\* refreshInBackground after its await.
RefreshInBackgroundDone(f, ok) ==
  /\ f \in fetches
  /\ f.kind = "background"
  /\ ok => f.target # NoCell
  /\ fetches' = fetches \ {f}
  /\ Returned(f, ok)
  /\ IF ok
     THEN /\ IF StillOnNetwork(f)
             THEN shares' = Fetched(f)
             ELSE UNCHANGED shares
          /\ cache' = (f.id :> Fetched(f)) @@ cache
          /\ UNCHANGED <<sError, sLoading>>
     ELSE /\ BackgroundCatch(f)
          /\ UNCHANGED <<shares, cache>>
  /\ UNCHANGED <<sConnected, hasNetwork, currentNetworkId, sClient, nextFetch>>
  /\ UNCHANGED <<connVars, authVars, lsVars, netVars, codecVars>>

\* refresh() up to its await.
SharesRefresh ==
  /\ IF ~sClient /\ ~connected
     THEN UNCHANGED shareVars
     ELSE /\ sClient' = TRUE
          /\ UNCHANGED <<cache, sConnected>>
          /\ IF clientCell = NoCell
             THEN /\ shares' = EmptyShares
                  /\ hasNetwork' = FALSE
                  /\ sLoading' = FALSE
                  /\ currentNetworkId' = Null
                  /\ UNCHANGED <<sError, fetches, nextFetch, lastDone>>
             ELSE /\ hasNetwork' = TRUE
                  /\ sLoading' = TRUE
                  /\ sError' = Null
                  /\ LaunchFetch("refresh", Null, clientCell)
                  /\ UNCHANGED <<shares, currentNetworkId>>
  /\ UNCHANGED <<connVars, authVars, lsVars, netVars, codecVars>>

\* refresh() after its await.
SharesRefreshDone(f, ok) ==
  /\ f \in fetches
  /\ f.kind = "refresh"
  /\ fetches' = fetches \ {f}
  /\ Returned(f, ok)
  /\ IF ok
     THEN /\ shares' = Fetched(f)
          /\ IF Truthy(currentNetworkId)
             THEN cache' = (currentNetworkId :> Fetched(f)) @@ cache
             ELSE UNCHANGED cache
          /\ UNCHANGED sError
     ELSE /\ sError' = ErrFetch
          /\ UNCHANGED <<shares, cache>>
  /\ sLoading' = FALSE
  /\ UNCHANGED <<sConnected, hasNetwork, currentNetworkId, sClient, nextFetch>>
  /\ UNCHANGED <<connVars, authVars, lsVars, netVars, codecVars>>

\* currentShares.find(s => s.id === id): the view holds the share as long as
\* it holds fetched records from which the share has not been taken.
HasShare(view) == view # EmptyShares /\ "removed" \notin DOMAIN view

\* currentShares.filter(s => s.id !== id)
WithoutShare(view) == [net |-> view.net, fetch |-> view.fetch, removed |-> TRUE]

\* deleteShare(id) up to the await of deleteShareItem.  The call is kept with
\* the other zome calls in flight; view is the list read before the await.
deleteShare ==
  /\ IF ~sClient \/ ~HasShare(shares)
     THEN UNCHANGED <<fetches, nextFetch>>
     ELSE /\ nextFetch <= MaxFetch
          /\ fetches' = fetches \cup {[kind |-> "delete", id |-> currentNetworkId,
                                       target |-> clientCell, n |-> nextFetch,
                                       displayed |-> currentNetworkId,
                                       view |-> shares]}
          /\ nextFetch' = nextFetch + 1
  /\ UNCHANGED <<shares, sLoading, sError, sConnected, hasNetwork, cache,
                 currentNetworkId, sClient, lastDone>>
  /\ UNCHANGED <<connVars, authVars, lsVars, netVars, codecVars>>

\* deleteShare(id) after the await.
deleteShareDone(f, ok) ==
  /\ f \in fetches
  /\ f.kind = "delete"
  /\ ok => f.target # NoCell
  /\ fetches' = fetches \ {f}
  /\ Returned(f, ok)
  /\ IF ok
     THEN shares' = WithoutShare(f.view) /\ UNCHANGED sError
     ELSE sError' = ErrFetch /\ UNCHANGED shares
  /\ UNCHANGED <<sLoading, sConnected, hasNetwork, cache, currentNetworkId,
                 sClient, nextFetch>>
  /\ UNCHANGED <<connVars, authVars, lsVars, netVars, codecVars>>


(***************************************************************************)
(* Networks store: ui/src/lib/stores/networks.ts                           *)
(***************************************************************************)

\* A marking that sets the flag of the network selected and leaves the flags
\* of the others as they are.
MarkActiveKeepsOld(list, id) ==
  [k \in 1..Len(list) |->
     IF list[k].cellIdString = id THEN [list[k] EXCEPT !.isActive = TRUE]
     ELSE list[k]]

\* networks.map(n => ({...n, isActive: n.cellIdString === id}))
MarkActive(list, id) ==
  [k \in 1..Len(list) |-> [list[k] EXCEPT !.isActive = (list[k].cellIdString = id)]]

\* client?.setCellId(cell): nothing happens without a client.
SetCellId(cell) ==
  clientCell' = IF connected THEN cell ELSE clientCell

\* A selection that stores the id it is given though no network has it.
SetActiveStoresUnlisted(list, cellIdString) ==
  LET i == FindIndex(list, cellIdString)
  IN  IF i = 0
      THEN /\ networks' = list
           /\ lsActive' = cellIdString
           /\ UNCHANGED <<activeNetworkId, clientCell, shareVars>>
      ELSE /\ SetCellId(list[i].cellId)
           /\ lsActive' = cellIdString
           /\ activeNetworkId' = cellIdString
           /\ networks' = MarkActive(list, cellIdString)
           /\ SwitchNetwork(cellIdString,
                            IF connected THEN list[i].cellId ELSE clientCell)

\* A selection that does not store the active id.
SetActiveNoPersist(list, cellIdString) ==
  LET i == FindIndex(list, cellIdString)
  IN  IF i = 0
      THEN /\ networks' = list
           /\ UNCHANGED <<activeNetworkId, clientCell, lsActive, shareVars>>
      ELSE /\ SetCellId(list[i].cellId)
           /\ UNCHANGED lsActive
           /\ activeNetworkId' = cellIdString
           /\ networks' = MarkActive(list, cellIdString)
           /\ SwitchNetwork(cellIdString,
                            IF connected THEN list[i].cellId ELSE clientCell)

\* setActiveNetwork(cellIdString) on the list `list`, up to the await of
\* switchNetwork; the caller has put `list` into the store or found it there.
SetActive(list, cellIdString) ==
  LET i == FindIndex(list, cellIdString)
  IN  IF i = 0
      THEN /\ networks' = list
           /\ UNCHANGED <<activeNetworkId, clientCell, lsActive, shareVars>>
      ELSE /\ SetCellId(list[i].cellId)
           /\ lsActive' = cellIdString
           /\ activeNetworkId' = cellIdString
           /\ networks' = MarkActive(list, cellIdString)
           /\ SwitchNetwork(cellIdString,
                            IF connected THEN list[i].cellId ELSE clientCell)

setActiveNetwork(cellIdString) ==
  /\ SetActive(networks, cellIdString)
  /\ UNCHANGED <<connected, authVars, lsNetworks, nLoading, nError, calls,
                 nextCall, nResult, codecVars>>

\* A request to the conductor.  renamed is history: the ids and names of the
\* networks that carried a name given by updateName when init() was called.
NoCall == [op |-> "none", ok |-> FALSE, cells |-> <<>>, cell |-> NoCell,
           name |-> Null, passphrase |-> <<>>, n |-> 0, renamed |-> {}]

Issue(call) ==
  /\ nextCall <= MaxCalls
  /\ calls' = calls \cup {[call EXCEPT !.n = nextCall]}
  /\ nextCall' = nextCall + 1

\* The networks of a list that carry a name given by updateName.
Renamed(list) ==
  {<<list[k].cellIdString, list[k].name>> :
     k \in {j \in 1..Len(list) : list[j].name \in NewNames}}

\* init() up to the await of getNetworks: appInfo is asked for, and answers
\* with the clones the conductor holds when it gets the request.
init(ok) ==
  /\ IF ~connected
     THEN /\ ok
          /\ nLoading' = FALSE
          /\ nError' = ErrNotConnected
          /\ UNCHANGED <<calls, nextCall>>
     ELSE /\ nLoading' = TRUE
          /\ nError' = Null
          /\ Issue([NoCall EXCEPT !.op = "init", !.ok = ok,
                                  !.cells = IF ok THEN cells ELSE <<>>,
                                  !.renamed = Renamed(networks)])
  /\ UNCHANGED <<networks, activeNetworkId, nResult>>
  /\ UNCHANGED <<connVars, authVars, lsVars, shareVars, codecVars>>

\* A restore that trusts the stored id without looking for it in the list.
RestoreActiveUnchecked(list, stored) ==
  IF ~Truthy(stored) /\ Len(list) > 0 THEN list[1].cellIdString ELSE stored

\* The active id init() settles on.
RestoreActive(list, stored) ==
  LET kept == IF Truthy(stored) /\ ~Has(list, stored) THEN Null ELSE stored
  IN  IF ~Truthy(kept) /\ Len(list) > 0 THEN list[1].cellIdString ELSE kept

\* init() after the await of getNetworks.
initDone(c) ==
  /\ c \in calls
  /\ c.op = "init"
  /\ calls' = calls \ {c}
  /\ UNCHANGED <<nextCall, nResult>>
  /\ nLoading' = FALSE
  /\ IF c.ok
     THEN LET list == getNetworks(c.cells, lsNetworks)
              active == RestoreActive(list, lsActive)
          IN  /\ networks' = MarkActive(list, active)
              /\ activeNetworkId' = active
              /\ nError' = Null
              /\ IF Truthy(active) /\ Has(list, active)
                 THEN LET cell == list[FindIndex(list, active)].cellId
                      IN  /\ SetCellId(cell)
                          /\ SwitchNetwork(active,
                                           IF connected THEN cell ELSE clientCell)
                 ELSE UNCHANGED <<clientCell, shareVars>>
     ELSE /\ nError' = ErrAuthority
          /\ UNCHANGED <<networks, activeNetworkId, clientCell, shareVars>>
  /\ UNCHANGED <<connected, authVars, lsVars, codecVars>>

\* An early return that raises the loading flag first.
CloneNotConnectedLoading ==
  /\ nError' = ErrNotConnected
  /\ nResult' = Null
  /\ nLoading' = TRUE
  /\ UNCHANGED <<calls, nextCall, cells>>

\* createNetwork and joinNetwork without an app client: the error is reported
\* and null is returned.
CloneNotConnected ==
  /\ nError' = ErrNotConnected
  /\ nResult' = Null
  /\ UNCHANGED <<nLoading, calls, nextCall, cells>>

\* createNetwork(name, passphrase?) and joinNetwork(passphrase, name?) up to
\* the await of createCloneCell.  The conductor clones the cell (ok) or
\* refuses.
Clone(op, name, passphrase, ok) ==
  IF ~connected
  THEN /\ ok
       /\ CloneNotConnected
  ELSE /\ nLoading' = TRUE
       /\ nError' = Null
       /\ UNCHANGED nResult
       /\ IF ok
          THEN \E cloneName \in CloneNames :
                 cells' = Materialize(cells, passphraseToNetworkSeed(passphrase),
                                      cloneName)
          ELSE UNCHANGED cells
       /\ Issue([NoCall EXCEPT
                   !.op = op, !.ok = ok,
                   !.cell = IF ok
                            THEN CloneCellId(passphraseToNetworkSeed(passphrase))
                            ELSE NoCell,
                   !.name = name, !.passphrase = passphrase])

createNetwork(name, passphrase, ok) ==
  /\ \E finalPassphrase \in
        (IF passphrase # NoPassphrase THEN {passphrase} ELSE generatePassphrase) :
       Clone("create", name, finalPassphrase, ok)
  /\ UNCHANGED <<networks, activeNetworkId>>
  /\ UNCHANGED <<connVars, lsVars, shareVars, codecVars>>

joinNetwork(passphrase, name, ok) ==
  /\ Clone("join", IF name = Null THEN DefaultJoinName ELSE name, passphrase, ok)
  /\ UNCHANGED <<networks, activeNetworkId>>
  /\ UNCHANGED <<connVars, lsVars, shareVars, codecVars>>

\* A catch that reports the error and leaves the loading flag set.
CloneCatchKeepsLoading(c) ==
  /\ nError' = ErrAuthority
  /\ nResult' = Null
  /\ nLoading' = TRUE
  /\ UNCHANGED <<networks, activeNetworkId, clientCell, lsVars, shareVars>>

\* The catch of createNetwork and joinNetwork: loading ends, the error is
\* reported and null is returned.
CloneCatch(c) ==
  /\ nError' = ErrAuthority
  /\ nResult' = Null
  /\ nLoading' = FALSE
  /\ UNCHANGED <<networks, activeNetworkId, clientCell, lsVars, shareVars>>

\* handleJoin of the dialog: the passphrase typed is validated, and only a
\* valid one is passed on, trimmed, with the name typed or the default name.
handleJoin(passphrase, networkName, ok) ==
  IF ~validatePassphrase(passphrase).valid
  THEN UNCHANGED vars
  ELSE joinNetwork(Trim(passphrase),
                   IF Truthy(networkName) THEN networkName ELSE DefaultJoinName,
                   ok)

\* createNetwork and joinNetwork after the await: the registry saves the
\* record, the store appends the network and makes it the active one.
cloneDone(c) ==
  /\ c \in calls
  /\ c.op \in {"create", "join"}
  /\ calls' = calls \ {c}
  /\ UNCHANGED nextCall
  /\ IF c.ok
     THEN LET network == NewNetwork(c.cell, c.name, c.passphrase)
          IN  /\ lsNetworks' = saveNetworkLocally(lsNetworks, network)
              /\ SetActive(Append(networks, network), network.cellIdString)
              /\ nResult' = network.cellIdString
              /\ nLoading' = FALSE
              /\ UNCHANGED nError
     ELSE CloneCatch(c)
  /\ UNCHANGED <<connected, authVars, codecVars>>


\* leaveNetwork(cellIdString) up to the await of disableCloneCell.
leaveNetwork(cellIdString, ok) ==
  /\ IF ~connected \/ ~Has(networks, cellIdString)
     THEN /\ ok
          /\ UNCHANGED <<calls, nextCall, cells>>
     ELSE LET cell == networks[FindIndex(networks, cellIdString)].cellId
          IN  /\ cells' = IF ok THEN Deactivate(cells, cell) ELSE cells
              /\ Issue([NoCall EXCEPT !.op = "leave", !.ok = ok, !.cell = cell])
  /\ UNCHANGED <<networks, activeNetworkId, nLoading, nError, nResult>>
  /\ UNCHANGED <<connVars, lsVars, shareVars, codecVars>>

\* A leave that selects nothing afterwards.
FirstRemainingNone(remaining) == Null

\* remaining[0]?.cellIdString || null
FirstRemaining(remaining) ==
  IF Len(remaining) > 0 /\ Truthy(remaining[1].cellIdString)
  THEN remaining[1].cellIdString
  ELSE Null

\* A leave whose failure removes the local record all the same.
leaveDoneDropsRecord(c) ==
  /\ c \in calls
  /\ c.op = "leave"
  /\ calls' = calls \ {c}
  /\ UNCHANGED <<nextCall, nResult>>
  /\ IF c.ok
     THEN LET cellIdString == cellIdToString(c.cell)
              remaining == FilterOut(networks, cellIdString)
              leavingActive == activeNetworkId = cellIdString
              newActiveId == IF leavingActive THEN FirstRemaining(remaining)
                             ELSE activeNetworkId
          IN  /\ lsNetworks' = removeNetworkLocally(lsNetworks, cellIdString)
              /\ IF leavingActive
                 THEN /\ lsActive' = IF Truthy(newActiveId) THEN newActiveId ELSE ""
                      /\ SetCellId(IF Has(remaining, newActiveId)
                                   THEN remaining[FindIndex(remaining, newActiveId)].cellId
                                   ELSE NoCell)
                 ELSE UNCHANGED <<lsActive, clientCell>>
              /\ networks' = MarkActive(remaining, newActiveId)
              /\ activeNetworkId' = newActiveId
              /\ UNCHANGED nError
     ELSE /\ nError' = ErrAuthority
          /\ lsNetworks' = removeNetworkLocally(lsNetworks, cellIdToString(c.cell))
          /\ UNCHANGED <<networks, activeNetworkId, clientCell, lsActive>>
  /\ UNCHANGED <<connected, nLoading, authVars, shareVars, codecVars>>

\* leaveNetwork after the await: disableNetwork removes the local record, then
\* the store drops the network and, if it was the active one, moves on.
leaveDone(c) ==
  /\ c \in calls
  /\ c.op = "leave"
  /\ calls' = calls \ {c}
  /\ UNCHANGED <<nextCall, nResult>>
  /\ IF c.ok
     THEN LET cellIdString == cellIdToString(c.cell)
              remaining == FilterOut(networks, cellIdString)
              leavingActive == activeNetworkId = cellIdString
              newActiveId == IF leavingActive THEN FirstRemaining(remaining)
                             ELSE activeNetworkId
          IN  /\ lsNetworks' = removeNetworkLocally(lsNetworks, cellIdString)
              /\ IF leavingActive
                 THEN /\ lsActive' = IF Truthy(newActiveId) THEN newActiveId ELSE ""
                      /\ SetCellId(IF Has(remaining, newActiveId)
                                   THEN remaining[FindIndex(remaining, newActiveId)].cellId
                                   ELSE NoCell)
                 ELSE UNCHANGED <<lsActive, clientCell>>
              /\ networks' = MarkActive(remaining, newActiveId)
              /\ activeNetworkId' = newActiveId
              /\ UNCHANGED nError
     ELSE /\ nError' = ErrAuthority
          /\ UNCHANGED <<networks, activeNetworkId, clientCell, lsVars>>
  /\ UNCHANGED <<connected, nLoading, authVars, shareVars, codecVars>>

\* A rename that also tells the conductor.
updateNameRemote(cellIdString, name) ==
  /\ lsNetworks' = updateNetworkName(lsNetworks, cellIdString, name)
  /\ networks' = [k \in 1..Len(networks) |->
                    IF networks[k].cellIdString = cellIdString
                    THEN [networks[k] EXCEPT !.name = name]
                    ELSE networks[k]]
  /\ Issue([NoCall EXCEPT !.op = "rename", !.ok = TRUE, !.name = name])
  /\ UNCHANGED <<activeNetworkId, nLoading, nError, nResult, lsActive>>
  /\ UNCHANGED <<connVars, authVars, shareVars, codecVars>>

\* enableCloneCell that succeeds: the clone, if there is one, is enabled.
Reactivate(cellInfo, cellId) ==
  LET i == CellIndex(cellInfo, cellId)
  IN  IF i > 0 THEN [cellInfo EXCEPT ![i].enabled = TRUE] ELSE cellInfo

\* disableNetwork(appClient, cellId) of the registry, called on its own, up to
\* the await of disableCloneCell.
disableNetwork(cellId, ok) ==
  /\ connected
  /\ cells' = IF ok THEN Deactivate(cells, cellId) ELSE cells
  /\ Issue([NoCall EXCEPT !.op = "disable", !.ok = ok, !.cell = cellId])
  /\ UNCHANGED <<networks, activeNetworkId, nLoading, nError, nResult>>
  /\ UNCHANGED <<connVars, lsVars, shareVars, codecVars>>

\* A disableNetwork that empties the local storage of networks.
disableNetworkDoneClearsAll(c) ==
  /\ c \in calls
  /\ c.op = "disable"
  /\ calls' = calls \ {c}
  /\ lsNetworks' = IF c.ok THEN <<>> ELSE lsNetworks
  /\ UNCHANGED <<networks, activeNetworkId, nLoading, nError, nextCall, nResult>>
  /\ UNCHANGED <<connVars, authVars, lsActive, shareVars, codecVars>>

\* disableNetwork after the await: the local record is removed; when the
\* conductor refused, the exception leaves the function before that.
disableNetworkDone(c) ==
  /\ c \in calls
  /\ c.op = "disable"
  /\ calls' = calls \ {c}
  /\ lsNetworks' = IF c.ok
                   THEN removeNetworkLocally(lsNetworks, cellIdToString(c.cell))
                   ELSE lsNetworks
  /\ UNCHANGED <<networks, activeNetworkId, nLoading, nError, nextCall, nResult>>
  /\ UNCHANGED <<connVars, authVars, lsActive, shareVars, codecVars>>

\* enableNetwork(appClient, cellId) of the registry up to the await of
\* enableCloneCell.
enableNetwork(cellId, ok) ==
  /\ connected
  /\ cells' = IF ok THEN Reactivate(cells, cellId) ELSE cells
  /\ Issue([NoCall EXCEPT !.op = "enable", !.ok = ok, !.cell = cellId])
  /\ UNCHANGED <<networks, activeNetworkId, nLoading, nError, nResult>>
  /\ UNCHANGED <<connVars, lsVars, shareVars, codecVars>>

\* enableNetwork after the await: nothing more is done.
enableNetworkDone(c) ==
  /\ c \in calls
  /\ c.op = "enable"
  /\ calls' = calls \ {c}
  /\ UNCHANGED <<networks, activeNetworkId, nLoading, nError, nextCall, nResult>>
  /\ UNCHANGED <<connVars, authVars, lsVars, shareVars, codecVars>>

\* updateName(cellIdString, name): the local record, then the store's list.
updateName(cellIdString, name) ==
  /\ lsNetworks' = updateNetworkName(lsNetworks, cellIdString, name)
  /\ networks' = [k \in 1..Len(networks) |->
                    IF networks[k].cellIdString = cellIdString
                    THEN [networks[k] EXCEPT !.name = name]
                    ELSE networks[k]]
  /\ UNCHANGED <<activeNetworkId, nLoading, nError, calls, nextCall, nResult,
                 lsActive>>
  /\ UNCHANGED <<connVars, authVars, shareVars, codecVars>>

\* A reset that also empties the cache of the shares store.
resetClearsCache ==
  /\ networks' = <<>>
  /\ activeNetworkId' = Null
  /\ nLoading' = FALSE
  /\ nError' = Null
  /\ cache' = <<>>
  /\ UNCHANGED <<calls, nextCall, nResult>>
  /\ UNCHANGED <<shares, sLoading, sError, sConnected, hasNetwork,
                 currentNetworkId, sClient, fetches, nextFetch, lastDone>>
  /\ UNCHANGED <<connVars, authVars, lsVars, codecVars>>

\* reset(): _state.set(initialState)
reset ==
  /\ networks' = <<>>
  /\ activeNetworkId' = Null
  /\ nLoading' = FALSE
  /\ nError' = Null
  /\ UNCHANGED <<calls, nextCall, nResult>>
  /\ UNCHANGED <<connVars, authVars, lsVars, shareVars, codecVars>>

(***************************************************************************)
(* The session                                                             *)
(***************************************************************************)

NotValidated == [valid |-> FALSE, error |-> Null]

\* The codec has been given nothing.
CodecIdle ==
  /\ codecPc = "idle"
  /\ codecIn = <<>>
  /\ codecValid = NotValidated
  /\ codecSeed = <<>>
  /\ codecBack = <<>>

\* Process start: nothing connected, both stores as constructed.
Started ==
  /\ connected = FALSE
  /\ clientCell = NoCell
  /\ networks = <<>>
  /\ activeNetworkId = Null
  /\ nLoading = FALSE
  /\ nError = Null
  /\ calls = {}
  /\ nextCall = 1
  /\ nResult = Null
  /\ shares = EmptyShares
  /\ sLoading = TRUE
  /\ sError = Null
  /\ sConnected = FALSE
  /\ hasNetwork = FALSE
  /\ cache = <<>>
  /\ currentNetworkId = Null
  /\ sClient = FALSE
  /\ fetches = {}
  /\ nextFetch = 1
  /\ lastDone = [call |-> NoFetch, ok |-> FALSE, displayed |-> Null]

\* A fresh installation: no clone, nothing stored.
Init ==
  /\ Started
  /\ CodecIdle
  /\ cells = <<>>
  /\ lsNetworks = <<>>
  /\ lsActive = Null

\* The clone and the local record an earlier session left for a passphrase
\* it created a network with.
EarlierClone(passphrase) ==
  [type |-> "cloned",
   cell_id |-> CloneCellId(passphraseToNetworkSeed(passphrase)),
   network_seed |-> passphraseToNetworkSeed(passphrase),
   name |-> CHOOSE n \in CloneNames : TRUE,
   enabled |-> TRUE]

EarlierRecord(passphrase) ==
  [cellIdString |-> cellIdToString(CloneCellId(passphraseToNetworkSeed(passphrase))),
   name |-> CHOOSE n \in CreateNames : TRUE,
   passphrase |-> passphrase]

\* Process start of a user who created one network per generated passphrase
\* in earlier sessions and left one of them active.
InitReturning ==
  /\ Started
  /\ CodecIdle
  /\ \E order \in {o \in [1..Cardinality(generatePassphrase) -> generatePassphrase] :
                     \A i, j \in DOMAIN o : i # j => o[i] # o[j]} :
       /\ cells = [k \in DOMAIN order |-> EarlierClone(order[k])]
       /\ lsNetworks = [k \in DOMAIN order |-> EarlierRecord(order[k])]
  /\ lsActive \in {r.cellIdString : r \in {EarlierRecord(q) : q \in generatePassphrase}}

Next ==
  \/ \E ok \in BOOLEAN : SharesInit(ok)
  \/ \E ok \in BOOLEAN : init(ok)
  \/ \E c \in calls : initDone(c)
  \/ \E name \in CreateNames, ok \in BOOLEAN :
        createNetwork(name, NoPassphrase, ok)
  \/ \E p \in TypedPassphrases, name \in JoinNames, ok \in BOOLEAN :
        joinNetwork(p, name, ok)
  \/ \E c \in calls : cloneDone(c)
  \/ \E id \in AllIdStrings : setActiveNetwork(id)
  \/ \E id \in AllIdStrings, ok \in BOOLEAN : leaveNetwork(id, ok)
  \/ \E c \in calls : leaveDone(c)
  \/ \E id \in AllIdStrings, name \in NewNames : updateName(id, name)
  \/ reset
  \/ SharesRefresh
  \/ \E f \in fetches, ok \in BOOLEAN : FetchAndCacheSharesDone(f, ok)
  \/ \E f \in fetches, ok \in BOOLEAN : RefreshInBackgroundDone(f, ok)
  \/ \E f \in fetches, ok \in BOOLEAN : SharesRefreshDone(f, ok)

Spec == Init /\ [][Next]_vars

\* The cache under switches between the networks of a returning user: no
\* network is created, joined or left.
NextCache ==
  \/ \E ok \in BOOLEAN : SharesInit(ok)
  \/ \E ok \in BOOLEAN : init(ok)
  \/ \E c \in calls : initDone(c)
  \/ \E id \in AllIdStrings : setActiveNetwork(id)
  \/ SharesRefresh
  \/ \E f \in fetches, ok \in BOOLEAN : FetchAndCacheSharesDone(f, ok)
  \/ \E f \in fetches, ok \in BOOLEAN : RefreshInBackgroundDone(f, ok)
  \/ \E f \in fetches, ok \in BOOLEAN : SharesRefreshDone(f, ok)

SpecCache == InitReturning /\ [][NextCache]_vars

\* What a session can find at its start: the conductor reports the provisioned
\* cell alone, or with the clones of two earlier networks before or around it;
\* the local records are those of both networks or of one; the stored active
\* id is none, that of the network with a record, or that of a network that is
\* gone.
SessionCells ==
  LET a == EarlierClone(CHOOSE p \in TypedPassphrases : TRUE)
      y == EarlierClone(CHOOSE p \in generatePassphrase \ TypedPassphrases : TRUE)
  IN  {<<ProvisionedCell>>, <<ProvisionedCell, a, y>>, <<y, ProvisionedCell, a>>}

SessionRecords ==
  LET a == EarlierRecord(CHOOSE p \in TypedPassphrases : TRUE)
      y == EarlierRecord(CHOOSE p \in generatePassphrase \ TypedPassphrases : TRUE)
  IN  {<<a, y>>, <<y>>}

SessionActive ==
  {Null, UnknownId,
   (EarlierRecord(CHOOSE p \in generatePassphrase \ TypedPassphrases : TRUE)).cellIdString}

InitSession ==
  /\ Started
  /\ CodecIdle
  /\ cells \in SessionCells
  /\ lsNetworks \in SessionRecords
  /\ lsActive \in SessionActive

MaxSessionFetch == 2

\* An operation that starts a getRecentShares call only while fewer than
\* MaxSessionFetch have been started.
Capped(A) == A /\ nextFetch' <= MaxSessionFetch + 1

\* A session that lists, selects and leaves networks and makes at
\* most MaxSessionFetch getRecentShares calls.
NextSession ==
  \/ \E ok \in BOOLEAN : SharesInit(ok)
  \/ \E ok \in BOOLEAN : init(ok)
  \/ \E c \in calls : Capped(initDone(c))
  \/ \E id \in AllIdStrings : Capped(setActiveNetwork(id))
  \/ \E id \in AllIdStrings, ok \in BOOLEAN : leaveNetwork(id, ok)
  \/ \E c \in calls : leaveDone(c)
  \/ Capped(SharesRefresh)
  \/ \E f \in fetches, ok \in BOOLEAN : FetchAndCacheSharesDone(f, ok)
  \/ \E f \in fetches, ok \in BOOLEAN : RefreshInBackgroundDone(f, ok)
  \/ \E f \in fetches, ok \in BOOLEAN : SharesRefreshDone(f, ok)

SpecSession == InitSession /\ [][NextSession]_vars

\* A session that lists and renames networks.
NextRename ==
  \/ \E ok \in BOOLEAN : SharesInit(ok)
  \/ \E ok \in BOOLEAN : init(ok)
  \/ \E c \in calls : Capped(initDone(c))
  \/ \E id \in AllIdStrings, name \in NewNames : updateName(id, name)
  \/ \E f \in fetches, ok \in BOOLEAN : FetchAndCacheSharesDone(f, ok)
  \/ \E f \in fetches, ok \in BOOLEAN : RefreshInBackgroundDone(f, ok)

SpecRename == InitSession /\ [][NextRename]_vars

\* A fresh installation in which networks are created, joined and selected.
NextCreate ==
  \/ \E ok \in BOOLEAN : SharesInit(ok)
  \/ \E name \in CreateNames, ok \in BOOLEAN :
        createNetwork(name, NoPassphrase, ok)
  \/ \E p \in TypedPassphrases, name \in JoinNames, ok \in BOOLEAN :
        joinNetwork(p, name, ok)
  \/ \E c \in calls : Capped(cloneDone(c))
  \/ \E id \in AllIdStrings : Capped(setActiveNetwork(id))
  \/ \E f \in fetches, ok \in BOOLEAN : FetchAndCacheSharesDone(f, ok)
  \/ \E f \in fetches, ok \in BOOLEAN : RefreshInBackgroundDone(f, ok)

SpecCreate == Init /\ [][NextCreate]_vars

MaxEarlyOps == 3

\* An operation that sends a request to the conductor only while fewer than
\* MaxEarlyOps requests, getRecentShares calls included, have been sent.
EarlyCapped(A) == A /\ (nextCall' - 1) + (nextFetch' - 1) <= MaxEarlyOps

\* A fresh installation whose stores are used before and after the connection
\* is made: networks are created, joined and left, and the shares store is
\* switched and refreshed directly.
NextEarly ==
  \/ \E ok \in BOOLEAN : SharesInit(ok)
  \/ \E name \in CreateNames, ok \in BOOLEAN :
        EarlyCapped(createNetwork(name, NoPassphrase, ok))
  \/ \E p \in TypedPassphrases, name \in JoinNames, ok \in BOOLEAN :
        EarlyCapped(joinNetwork(p, name, ok))
  \/ \E c \in calls : EarlyCapped(cloneDone(c))
  \/ \E id \in AllIdStrings, ok \in BOOLEAN :
        EarlyCapped(leaveNetwork(id, ok))
  \/ \E c \in calls : EarlyCapped(leaveDone(c))
  \/ \E id \in AllIdStrings : EarlyCapped(switchNetwork(id))
  \/ EarlyCapped(SharesRefresh)
  \/ \E f \in fetches, ok \in BOOLEAN : FetchAndCacheSharesDone(f, ok)
  \/ \E f \in fetches, ok \in BOOLEAN : RefreshInBackgroundDone(f, ok)
  \/ \E f \in fetches, ok \in BOOLEAN : SharesRefreshDone(f, ok)

SpecEarly == Init /\ [][NextEarly]_vars

\* A returning user's session that is also torn down: networks are listed,
\* selected and left, the networks store is reset and the shares store is
\* refreshed.
NextTeardown ==
  \/ \E ok \in BOOLEAN : SharesInit(ok)
  \/ \E ok \in BOOLEAN : EarlyCapped(init(ok))
  \/ \E c \in calls : EarlyCapped(initDone(c))
  \/ \E id \in AllIdStrings : EarlyCapped(setActiveNetwork(id))
  \/ \E id \in AllIdStrings, ok \in BOOLEAN :
        EarlyCapped(leaveNetwork(id, ok))
  \/ \E c \in calls : EarlyCapped(leaveDone(c))
  \/ reset
  \/ EarlyCapped(SharesRefresh)
  \/ \E f \in fetches, ok \in BOOLEAN : FetchAndCacheSharesDone(f, ok)
  \/ \E f \in fetches, ok \in BOOLEAN : RefreshInBackgroundDone(f, ok)
  \/ \E f \in fetches, ok \in BOOLEAN : SharesRefreshDone(f, ok)

SpecTeardown == InitSession /\ [][NextTeardown]_vars

\* The registry used directly by a returning user: networks are disabled
\* and enabled.
NextRegistry ==
  \/ \E ok \in BOOLEAN : SharesInit(ok)
  \/ \E cellId \in AllCellIds, ok \in BOOLEAN : disableNetwork(cellId, ok)
  \/ \E c \in calls : disableNetworkDone(c)
  \/ \E cellId \in AllCellIds, ok \in BOOLEAN : enableNetwork(cellId, ok)
  \/ \E c \in calls : enableNetworkDone(c)

SpecRegistry == InitSession /\ [][NextRegistry]_vars

\* A fresh installation in which networks are listed, created, joined,
\* selected and left and the networks store is reset.
NextStore ==
  \/ \E ok \in BOOLEAN : SharesInit(ok)
  \/ \E ok \in BOOLEAN : init(ok)
  \/ \E c \in calls : Capped(initDone(c))
  \/ \E name \in CreateNames, ok \in BOOLEAN :
        createNetwork(name, NoPassphrase, ok)
  \/ \E p \in TypedPassphrases, name \in JoinNames, ok \in BOOLEAN :
        joinNetwork(p, name, ok)
  \/ \E c \in calls : Capped(cloneDone(c))
  \/ \E id \in AllIdStrings : Capped(setActiveNetwork(id))
  \/ \E id \in AllIdStrings, ok \in BOOLEAN : leaveNetwork(id, ok)
  \/ \E c \in calls : leaveDone(c)
  \/ reset
  \/ \E f \in fetches, ok \in BOOLEAN : FetchAndCacheSharesDone(f, ok)
  \/ \E f \in fetches, ok \in BOOLEAN : RefreshInBackgroundDone(f, ok)

SpecStore == Init /\ [][NextStore]_vars

\* What the conductor may report of the clone of one earlier network: with its
\* name or without, with its seed or without.
ListingClones ==
  LET a == EarlierClone(CHOOSE p \in TypedPassphrases : TRUE)
  IN  {[a EXCEPT !.name = name, !.network_seed = seed] :
         name \in {a.name, ""}, seed \in {a.network_seed, <<>>}}

\* The local records of that network: none, one with its name, or one with an
\* empty name.
ListingRecords ==
  LET a == EarlierRecord(CHOOSE p \in TypedPassphrases : TRUE)
  IN  {<<>>, <<a>>, <<[a EXCEPT !.name = ""]>>}

\* Process start of a user with one earlier network.
InitListing ==
  /\ Started
  /\ CodecIdle
  /\ cells \in {<<ProvisionedCell, c>> : c \in ListingClones}
  /\ lsNetworks \in ListingRecords
  /\ lsActive = Null

\* A session that lists its networks.
NextListing ==
  \/ \E ok \in BOOLEAN : SharesInit(ok)
  \/ \E ok \in BOOLEAN : init(ok)
  \/ \E c \in calls : Capped(initDone(c))
  \/ \E f \in fetches, ok \in BOOLEAN : FetchAndCacheSharesDone(f, ok)
  \/ \E f \in fetches, ok \in BOOLEAN : RefreshInBackgroundDone(f, ok)

SpecListing == InitListing /\ [][NextListing]_vars

\* A session in which the conductor answers every listing and may refuse to
\* disable a clone.
NextLeave ==
  \/ \E ok \in BOOLEAN : SharesInit(ok)
  \/ init(TRUE)
  \/ \E c \in calls : Capped(initDone(c))
  \/ \E id \in AllIdStrings : Capped(setActiveNetwork(id))
  \/ \E id \in AllIdStrings, ok \in BOOLEAN : leaveNetwork(id, ok)
  \/ \E c \in calls : leaveDone(c)
  \/ \E f \in fetches, ok \in BOOLEAN : FetchAndCacheSharesDone(f, ok)
  \/ \E f \in fetches, ok \in BOOLEAN : RefreshInBackgroundDone(f, ok)

SpecLeave == InitSession /\ [][NextLeave]_vars

\* A session in which networks are selected and a share of the view is
\* deleted.
NextDelete ==
  \/ \E ok \in BOOLEAN : SharesInit(ok)
  \/ init(TRUE)
  \/ \E c \in calls : initDone(c)
  \/ \E id \in AllIdStrings : setActiveNetwork(id)
  \/ deleteShare
  \/ \E f \in fetches, ok \in BOOLEAN : deleteShareDone(f, ok)
  \/ \E f \in fetches, ok \in BOOLEAN : FetchAndCacheSharesDone(f, ok)
  \/ \E f \in fetches, ok \in BOOLEAN : RefreshInBackgroundDone(f, ok)

SpecDelete == InitSession /\ [][NextDelete]_vars

\* A fresh installation in which networks are created, joined, renamed and
\* left: what happens to the local records.
NextRecords ==
  \/ \E ok \in BOOLEAN : SharesInit(ok)
  \/ \E name \in CreateNames, ok \in BOOLEAN :
        createNetwork(name, NoPassphrase, ok)
  \/ \E p \in TypedPassphrases, name \in JoinNames, ok \in BOOLEAN :
        joinNetwork(p, name, ok)
  \/ \E c \in calls : cloneDone(c)
  \/ \E id \in AllIdStrings, ok \in BOOLEAN : leaveNetwork(id, ok)
  \/ \E c \in calls : leaveDone(c)
  \/ \E id \in AllIdStrings, name \in NewNames : updateName(id, name)

SpecRecords == Init /\ [][NextRecords]_vars

\* A passphrase of two words.
MalformedPassphrases == {Join(<<PlainWord, PlainWord>>, <<" ">>)}

\* What is typed into the dialog, or handed to the store by another caller: a
\* passphrase of five words, the same with a blank before it, or a malformed
\* one.
JoinPassphrases ==
  TypedPassphrases \cup {<<" ">> \o p : p \in TypedPassphrases}
    \cup MalformedPassphrases

DialogNames == {""}

\* A fresh installation in which networks are joined, through the dialog and
\* through the store.
NextJoin ==
  \/ \E ok \in BOOLEAN : SharesInit(ok)
  \/ \E p \in JoinPassphrases, name \in DialogNames, ok \in BOOLEAN :
        handleJoin(p, name, ok)
  \/ \E p \in JoinPassphrases, name \in JoinNames, ok \in BOOLEAN :
        joinNetwork(p, name, ok)
  \/ \E c \in calls : Capped(cloneDone(c))
  \/ \E f \in fetches, ok \in BOOLEAN : FetchAndCacheSharesDone(f, ok)
  \/ \E f \in fetches, ok \in BOOLEAN : RefreshInBackgroundDone(f, ok)

SpecJoin == Init /\ [][NextJoin]_vars


(***************************************************************************)
(* The codec on its own                                                    *)
(***************************************************************************)

MaxWords == 6

CodecWords == {<<"a">>, <<"b">>, <<"y", "-", "o">>}

CodecSeparators == {<<" ">>, <<" ", " ">>, <<"\t">>}

CodecMargins == {<<>>, <<" ">>}

\* The strings the codec is given: up to MaxWords words, one separator between
\* them, blanks before and after or not.
CodecInputs ==
  {lead \o Join(words, sep) \o trail :
     lead \in CodecMargins, trail \in CodecMargins, sep \in CodecSeparators,
     words \in UNION {[1..k -> CodecWords] : k \in 0..MaxWords}}

InitCodec ==
  /\ Started
  /\ cells = <<>>
  /\ lsNetworks = <<>>
  /\ lsActive = Null
  /\ codecPc = "input"
  /\ codecIn \in CodecInputs
  /\ codecValid = NotValidated
  /\ codecSeed = <<>>
  /\ codecBack = <<>>

Validate ==
  /\ codecPc = "input"
  /\ codecValid' = validatePassphrase(codecIn)
  /\ codecPc' = "validated"
  /\ UNCHANGED <<codecIn, codecSeed, codecBack>>
  /\ UNCHANGED <<connVars, authVars, lsVars, netVars, shareVars>>

Encode ==
  /\ codecPc = "validated"
  /\ codecSeed' = passphraseToNetworkSeed(codecIn)
  /\ codecPc' = "encoded"
  /\ UNCHANGED <<codecIn, codecValid, codecBack>>
  /\ UNCHANGED <<connVars, authVars, lsVars, netVars, shareVars>>

Decode ==
  /\ codecPc = "encoded"
  /\ codecBack' = networkSeedToPassphrase(codecSeed)
  /\ codecPc' = "decoded"
  /\ UNCHANGED <<codecIn, codecValid, codecSeed>>
  /\ UNCHANGED <<connVars, authVars, lsVars, netVars, shareVars>>

NextCodec == Validate \/ Encode \/ Decode

SpecCodec == InitCodec /\ [][NextCodec]_vars

(***************************************************************************)
(* Properties                                                              *)
(***************************************************************************)

\* The words of a string, counted without splitting it: a word starts at every
\* character that is not whitespace and has whitespace, or nothing, before it.
WordStarts(s) ==
  {i \in 1..Len(s) : ~IsWs(s[i]) /\ (i = 1 \/ IsWs(s[i - 1]))}

\* C8: for every passphrase p that validatePassphrase accepts,
\* networkSeedToPassphrase(passphraseToNetworkSeed(p)) is p itself.
C8_RoundTrip ==
  (codecPc = "decoded" /\ codecValid.valid) => codecBack = codecIn

\* C9: validatePassphrase accepts a string exactly when it holds five words
\* between whitespace; every other string is refused with a reason, and the
\* reason for a wrong number of words, which tells the number found, is not
\* the reason for an empty word or for no word at all.
C9_Validate ==
  codecPc # "input" =>
    /\ codecValid.valid <=> Cardinality(WordStarts(codecIn)) = WordCount
    /\ codecValid.valid => codecValid.error = Null
    /\ ~codecValid.valid =>
         /\ codecValid.error \in {ErrRequired, ErrEmptyWord,
                                   ErrWordCount(Cardinality(WordStarts(codecIn)))}
         /\ codecValid.error = ErrWordCount(Cardinality(WordStarts(codecIn)))
              <=> Cardinality(WordStarts(codecIn)) \notin {0, WordCount}
         /\ codecValid.error = ErrRequired <=> WordStarts(codecIn) = {}

\* A five-word passphrase with blanks around it and a tab between its words
\* has been accepted.
C9_Witness ==
  /\ codecPc = "validated"
  /\ codecValid.valid
  /\ Len(codecIn) > 0
  /\ codecIn[1] = " "
  /\ \E i \in 1..Len(codecIn) : codecIn[i] = "\t"


\* The fetches switchNetwork starts.
IsSwitchFetch(f) == f.kind \in {"foreground", "background"}

\* C1: when the last two fetches were started for networks a and then b, and
\* both have returned their records, the view shows what was fetched for b,
\* whichever returned first and whether or not a or b was cached before.
C1_LastSelectWins ==
  \A a, b \in AllIdStrings :
    ( /\ a # b
      /\ fetches = {}
      /\ nextFetch > 2
      /\ a \in DOMAIN cache
      /\ b \in DOMAIN cache
      /\ cache[a].fetch = nextFetch - 2
      /\ cache[b].fetch = nextFetch - 1 )
    => shares = [net |-> b, fetch |-> nextFetch - 1]

\* Two networks were selected one after the other, the fetch of the first
\* returned last, and the view shows the second.
C1_Witness ==
  /\ fetches = {}
  /\ nextFetch > 3
  /\ lastDone.ok
  /\ IsSwitchFetch(lastDone.call)
  /\ lastDone.call.n = nextFetch - 2
  /\ lastDone.displayed # lastDone.call.id
  /\ lastDone.displayed \in DOMAIN cache
  /\ cache[lastDone.displayed].fetch = nextFetch - 1
  /\ shares = [net |-> lastDone.displayed, fetch |-> nextFetch - 1]

\* C2: a fetch of the shares store, refresh() included, changes the view only
\* if the network displayed when it returns is the one displayed when it was
\* started.
C2_GuardedApply ==
  [][\A f \in fetches :
       (f \notin fetches' /\ currentNetworkId # f.displayed)
       => shares' = shares]_vars

\* C3: when a fetch of switchNetwork(x) returns its records while another
\* network is displayed, the records go into the cache under x and the view,
\* the loading flag, the error and the other cache entries stay as they are.
C3_StaleResultCachedOnly ==
  [][\A f \in fetches :
       ( /\ IsSwitchFetch(f)
         /\ lastDone' = [call |-> f, ok |-> TRUE, displayed |-> currentNetworkId]
         /\ currentNetworkId # f.id )
       => /\ DOMAIN cache' = DOMAIN cache \cup {f.id}
          /\ cache'[f.id] = Fetched(f)
          /\ \A k \in DOMAIN cache \ {f.id} : cache'[k] = cache[k]
          /\ shares' = shares
          /\ sLoading' = sLoading
          /\ sError' = sError]_vars

\* A fetch returned its records while another network was displayed: they are
\* in the cache and not in the view.
C3_Witness ==
  /\ lastDone.ok
  /\ IsSwitchFetch(lastDone.call)
  /\ Truthy(lastDone.displayed)
  /\ lastDone.displayed # lastDone.call.id
  /\ lastDone.call.id \in DOMAIN cache
  /\ cache[lastDone.call.id] = Fetched(lastDone.call)
  /\ shares # Fetched(lastDone.call)

\* C4: selecting a network that has a cache entry shows that entry at once,
\* with the loading flag false, and starts a background refresh.
C4_CachedSwitchInstant ==
  [][\A id \in AllIdStrings :
       (setActiveNetwork(id) /\ Has(networks, id) /\ id \in DOMAIN cache)
       => /\ shares' = cache[id]
          /\ sLoading' = FALSE
          /\ \E f \in fetches' \ fetches : f.kind = "background" /\ f.id = id]_vars

\* C5: when a background refresh fails, the view, the cache, the error and
\* the loading flag stay as they are.
C5_BackgroundFailureSilent ==
  [][\A f \in fetches :
       ( /\ f.kind = "background"
         /\ lastDone' = [call |-> f, ok |-> FALSE, displayed |-> currentNetworkId] )
       => /\ shares' = shares
          /\ cache' = cache
          /\ sError' = sError
          /\ sLoading' = sLoading]_vars

\* The background refresh of the displayed network failed: the view still
\* shows the cached records and no error is set.
C5_Witness ==
  /\ lastDone.call.kind = "background"
  /\ ~lastDone.ok
  /\ lastDone.displayed = lastDone.call.id
  /\ currentNetworkId = lastDone.call.id
  /\ lastDone.call.id \in DOMAIN cache
  /\ shares = cache[lastDone.call.id]
  /\ sError = Null


\* No conductor request and no fetch is under way.
Quiet == calls = {} /\ fetches = {}

\* C6: once the operations of the networks store have returned, the client
\* addresses the cell of activeNetworkId, and no cell when activeNetworkId is
\* none; and every fetch of switchNetwork addresses the cell of the network it
\* was started for.
C6_ClientFollowsActive ==
  /\ Quiet =>
       IF Truthy(activeNetworkId)
       THEN clientCell # NoCell /\ cellIdToString(clientCell) = activeNetworkId
       ELSE clientCell = NoCell
  /\ \A f \in fetches :
       IsSwitchFetch(f) => f.target # NoCell /\ cellIdToString(f.target) = f.id

\* C7: at most one network of the list has isActive = true.
C7_SingleActive ==
  Cardinality({i \in 1..Len(networks) : networks[i].isActive}) <= 1

\* C10: after the first createNetwork("Books") of a fresh session has
\* succeeded, getNetworks returns exactly one network named "Books"; its
\* passphrase comes back unchanged from the codec's round trip and encodes to
\* the seed the conductor was given.
C10_CreateThenList ==
  ( /\ nextCall = 2
    /\ calls = {}
    /\ Len(cells) = 1
    /\ Len(lsNetworks) = 1
    /\ lsNetworks[1].name = "Books" )
  => LET list == getNetworks(cells, lsNetworks)
         books == {i \in 1..Len(list) : list[i].name = "Books"}
     IN  /\ Cardinality(books) = 1
         /\ \A i \in books :
              /\ networkSeedToPassphrase(passphraseToNetworkSeed(list[i].passphrase))
                   = list[i].passphrase
              /\ passphraseToNetworkSeed(list[i].passphrase) = cells[i].network_seed


\* The networks of a list other than the one with the id, in the list's order.
Others(list, id) == SelectSeq(list, LAMBDA n : n.cellIdString # id)

ReportedIds(cellInfo) ==
  LET cloned == SelectSeq(cellInfo, IsCloned)
  IN  [k \in 1..Len(cloned) |-> cellIdToString(cloned[k].cell_id)]

\* C12: when init() succeeds, activeNetworkId is the stored active id if the
\* conductor reports a network with that id; otherwise it is the id of the
\* first network reported, and none when none is reported.
C12_InitRestores ==
  [][\A c \in calls :
       (c.op = "init" /\ c.ok /\ c \notin calls')
       => LET ids == ReportedIds(c.cells)
          IN  activeNetworkId' =
                IF \E k \in 1..Len(ids) : ids[k] = lsActive THEN lsActive
                ELSE IF Len(ids) > 0 THEN ids[1]
                ELSE Null]_vars

\* init() found the stored active id to be that of no reported network and
\* made the first of the two reported networks the active one.
C12_Witness ==
  /\ calls = {}
  /\ lsActive = UnknownId
  /\ Len(networks) = 2
  /\ activeNetworkId = networks[1].cellIdString
  /\ networks[1].isActive
  /\ ~networks[2].isActive

\* The ids of a list of networks, in the list's order.
IdsOf(list) == [k \in 1..Len(list) |-> list[k].cellIdString]

\* C13: updateName(id, name) sends nothing to the conductor and leaves
\* activeNetworkId, the ids of the list and their order, the client's cell,
\* the stored active id and the shares cache as they are.
C13_RenameLocalOnly ==
  [][\A id \in AllIdStrings, name \in NewNames :
       updateName(id, name)
       => /\ calls' = calls
          /\ nextCall' = nextCall
          /\ cells' = cells
          /\ activeNetworkId' = activeNetworkId
          /\ IdsOf(networks') = IdsOf(networks)
          /\ clientCell' = clientCell
          /\ lsActive' = lsActive
          /\ cache' = cache]_vars

\* A network of the two listed was renamed: the list and the local record
\* carry the new name, and the conductor got the one request of init().
C13_Witness ==
  /\ calls = {}
  /\ nextCall = 2
  /\ Len(networks) = 2
  /\ \E k \in 1..Len(networks) : networks[k].name \in NewNames
  /\ \E k \in 1..Len(lsNetworks) : lsNetworks[k].name \in NewNames

\* C14: when the conductor refuses the clone of createNetwork or joinNetwork,
\* no local record is added or changed, the list, activeNetworkId, the
\* client's cell and the stored active id stay as they are, error is a
\* non-empty string, loading is false and the operation returns null; and
\* the request itself changed none of these either.
C14_CloneFailure ==
  [][/\ \A c \in calls :
          (c.op \in {"create", "join"} /\ ~c.ok /\ c \notin calls')
          => /\ lsNetworks' = lsNetworks
             /\ networks' = networks
             /\ activeNetworkId' = activeNetworkId
             /\ clientCell' = clientCell
             /\ lsActive' = lsActive
             /\ nError' # Null /\ nError' # ""
             /\ nLoading' = FALSE
             /\ nResult' = Null
     /\ (\E c \in calls' \ calls : c.op \in {"create", "join"})
          => /\ lsNetworks' = lsNetworks
             /\ networks' = networks
             /\ activeNetworkId' = activeNetworkId
             /\ clientCell' = clientCell
             /\ lsActive' = lsActive]_vars

\* A first network was created and the clone of a second one was refused:
\* the list and the records hold the first network alone, which is active,
\* and the session reports the error.
C14_Witness ==
  /\ calls = {}
  /\ nextCall = 3
  /\ nError = ErrAuthority
  /\ nResult = Null
  /\ ~nLoading
  /\ Len(cells) = 1
  /\ Len(networks) = 1
  /\ Len(lsNetworks) = 1
  /\ activeNetworkId = networks[1].cellIdString
  /\ lsActive = activeNetworkId

\* No client is connected: neither connection.ts nor the shares store has one.
NoClient == ~connected /\ ~sClient

\* A call of createNetwork or joinNetwork.
CloneCalled ==
  \/ \E name \in CreateNames, ok \in BOOLEAN : createNetwork(name, NoPassphrase, ok)
  \/ \E p \in TypedPassphrases, name \in JoinNames, ok \in BOOLEAN :
        joinNetwork(p, name, ok)

\* A call of leaveNetwork, switchNetwork or refresh.
LeaveSwitchRefreshCalled ==
  \/ \E id \in AllIdStrings, ok \in BOOLEAN : leaveNetwork(id, ok)
  \/ \E id \in AllIdStrings : switchNetwork(id)
  \/ SharesRefresh

\* C15 as stated: without a client, createNetwork, joinNetwork, leaveNetwork,
\* switchNetwork and refresh send nothing to the conductor, return null and
\* leave the list, activeNetworkId, loading, error, the view and the cache as
\* they are.
C15_NotConnectedNoOp ==
  [][(NoClient /\ (CloneCalled \/ LeaveSwitchRefreshCalled))
     => /\ UNCHANGED <<calls, nextCall, cells>>
        /\ UNCHANGED <<networks, activeNetworkId, nLoading, nError>>
        /\ UNCHANGED <<shares, cache>>
        /\ nResult' = Null]_vars

\* C15 amended: without a client, all five send nothing to the conductor and
\* leave the list, activeNetworkId, loading, the view and the cache as they
\* are; leaveNetwork, switchNetwork and refresh leave error as it is too,
\* while createNetwork and joinNetwork return null and set error to
\* "Not connected to Holochain".
C15_NotConnectedReported ==
  [][/\ (NoClient /\ (CloneCalled \/ LeaveSwitchRefreshCalled))
        => /\ UNCHANGED <<calls, nextCall, cells>>
           /\ UNCHANGED <<networks, activeNetworkId, nLoading>>
           /\ UNCHANGED <<shares, cache>>
     /\ (NoClient /\ CloneCalled)
        => nError' = ErrNotConnected /\ nResult' = Null
     /\ (NoClient /\ LeaveSwitchRefreshCalled /\ ~CloneCalled)
        => UNCHANGED nError]_vars

\* createNetwork or joinNetwork was called without a client: the error is
\* reported, nothing was sent and the list is empty.
C15_Witness ==
  /\ NoClient
  /\ nError = ErrNotConnected
  /\ nResult = Null
  /\ ~nLoading
  /\ nextCall = 1
  /\ cells = <<>>
  /\ networks = <<>>

\* C16: no createCloneCell request is made for a passphrase that
\* validatePassphrase refuses, whether joinNetwork or createNetwork is called
\* by the dialog or directly.
C16_MalformedNeverSent ==
  [][\A c \in calls' \ calls :
       c.op \in {"create", "join"} => validatePassphrase(c.passphrase).valid]_vars

\* C17: the list init() gets from getNetworks has one network per clone cell
\* the conductor reports, in the conductor's order; a local record whose id
\* the conductor does not report gives no network, nor does the provisioned
\* cell.
C17_ListFollowsConductor ==
  [][\A c \in calls :
       (c.op = "init" /\ c.ok /\ c \notin calls')
       => /\ IdsOf(networks') = ReportedIds(c.cells)
          /\ \A k \in 1..Len(lsNetworks) :
               (\A j \in 1..Len(c.cells) :
                  cellIdToString(c.cells[j].cell_id) # lsNetworks[k].cellIdString)
               => ~Has(networks', lsNetworks[k].cellIdString)
          /\ \A j \in 1..Len(c.cells) :
               c.cells[j].type = "provisioned"
               => ~Has(networks', cellIdToString(c.cells[j].cell_id))]_vars

\* init() listed the two clones around the provisioned cell, in the
\* conductor's order, the second of them without a local record.
C17_Witness ==
  /\ calls = {}
  /\ Len(cells) = 3
  /\ cells[2] = ProvisionedCell
  /\ Len(lsNetworks) = 1
  /\ IdsOf(networks) = <<cellIdToString(cells[1].cell_id),
                         cellIdToString(cells[3].cell_id)>>
  /\ lsNetworks[1].cellIdString = networks[1].cellIdString

\* C18: when setActiveNetwork(id) for a listed id has run up to its await,
\* activeNetworkId is id, the stored active id is id, the client addresses
\* the cell of id, and the shares store displays id.
C18_SelectSetsAllFour ==
  [][\A id \in AllIdStrings :
       (setActiveNetwork(id) /\ Has(networks, id))
       => /\ activeNetworkId' = id
          /\ lsActive' = id
          /\ clientCell' = networks[FindIndex(networks, id)].cellId
          /\ currentNetworkId' = id]_vars

\* After init() selected one of the two networks listed, the other one was
\* selected: the four agree on it and its fetch is on its way.
C18_Witness ==
  /\ calls = {}
  /\ nextCall = 2
  /\ Len(networks) = 2
  /\ Has(networks, activeNetworkId)
  /\ lsActive = activeNetworkId
  /\ currentNetworkId = activeNetworkId
  /\ clientCell = networks[FindIndex(networks, activeNetworkId)].cellId
  /\ \E f, g \in fetches :
       /\ g.n = 1 /\ g.id # activeNetworkId
       /\ f.n = 2 /\ IsSwitchFetch(f) /\ f.id = activeNetworkId

\* C19: a refresh() started while a network is displayed keeps loading true
\* until its fetch returns; when the fetch returns its records, the view and
\* the cache entry of the network displayed are those records and loading is
\* false; when it fails, the view and the cache stay as they are, error is
\* set and loading is false.
C19_RefreshLoadsAndReplaces ==
  [][/\ \A f \in fetches' :
          (f.kind = "refresh" /\ Truthy(f.displayed)) => sLoading' = TRUE
     /\ \A f \in fetches :
          ( /\ f.kind = "refresh"
            /\ Truthy(f.displayed)
            /\ lastDone' = [call |-> f, ok |-> TRUE, displayed |-> currentNetworkId] )
          => /\ shares' = Fetched(f)
             /\ Truthy(currentNetworkId')
                  => /\ currentNetworkId' \in DOMAIN cache'
                     /\ cache'[currentNetworkId'] = Fetched(f)
             /\ sLoading' = FALSE
     /\ \A f \in fetches :
          ( /\ f.kind = "refresh"
            /\ Truthy(f.displayed)
            /\ lastDone' = [call |-> f, ok |-> FALSE, displayed |-> currentNetworkId] )
          => /\ shares' = shares
             /\ cache' = cache
             /\ Truthy(sError')
             /\ sLoading' = FALSE]_vars

\* C20: the records cached under a network id were fetched from that
\* network: the client addressed its cell when the fetch was made.
C20_CacheEntryFromOwnNetwork ==
  \A x \in DOMAIN cache : cache[x].net = x

C22_RenameSurvivesInit ==
  [][\A c \in calls :
       (c.op = "init" /\ c.ok /\ c \notin calls')
       => \A r \in c.renamed :
            Has(networks', r[1])
            => networks'[FindIndex(networks', r[1])].name = r[2]]_vars

\* C23: disableNetwork(id) asks the conductor to disable the clone of id and,
\* when that succeeds, removes the local record of id and no other;
\* enableNetwork(id) asks the conductor to enable the clone and leaves the
\* local records as they are.
C23_DisableEnableRecords ==
  [][/\ \A c \in calls' \ calls :
          c.op \in {"disable", "enable"}
          => /\ lsNetworks' = lsNetworks
             /\ \A j \in 1..Len(cells') :
                  (c.ok /\ cells'[j].cell_id = c.cell)
                  => cells'[j].enabled = (c.op = "enable")
     /\ \A c \in calls \ calls' :
          /\ (c.op = "disable" /\ c.ok)
             => lsNetworks' = Others(lsNetworks, cellIdToString(c.cell))
          /\ (c.op = "disable" /\ ~c.ok) => lsNetworks' = lsNetworks
          /\ c.op = "enable" => lsNetworks' = lsNetworks]_vars

\* A network was disabled and enabled again: the conductor holds its clone
\* enabled, its local record is gone and that of the other network is there.
C23_Witness ==
  /\ calls = {}
  /\ nextCall = 3
  /\ Len(lsNetworks) = 1
  /\ \E j \in 1..Len(cells) :
       /\ IsCloned(cells[j])
       /\ cells[j].enabled
       /\ cellIdToString(cells[j].cell_id) # lsNetworks[1].cellIdString
       /\ cellIdToString(cells[j].cell_id) = lsActive

\* C24: a passphrase that validatePassphrase accepts has a seed that no other
\* accepted passphrase has.
C24_DistinctSeeds ==
  (codecPc \in {"encoded", "decoded"} /\ codecValid.valid)
  => \A q \in CodecInputs :
       (q # codecIn /\ validatePassphrase(q).valid)
       => passphraseToNetworkSeed(q) # codecSeed

\* C25: a network of the list has isActive = true exactly when its id is
\* activeNetworkId.
C25_IsActiveDerived ==
  \A k \in 1..Len(networks) :
    networks[k].isActive <=> networks[k].cellIdString = activeNetworkId

\* A network was created and another one joined: the second one of the list
\* is the active one and the only one flagged.
C25_Witness ==
  /\ calls = {}
  /\ Len(networks) = 2
  /\ networks[1].cellIdString # networks[2].cellIdString
  /\ activeNetworkId = networks[2].cellIdString
  /\ networks[2].isActive
  /\ ~networks[1].isActive

\* C26: activeNetworkId is none or the id of a listed network, and it is none
\* only when the list is empty.
C26_ActiveListed ==
  /\ Truthy(activeNetworkId) => Has(networks, activeNetworkId)
  /\ ~Truthy(activeNetworkId) => networks = <<>>

\* The active one of two networks was left: the one that remains is the
\* active one.
C26_Witness ==
  /\ calls = {}
  /\ nextCall = 3
  /\ Len(networks) = 1
  /\ activeNetworkId = networks[1].cellIdString
  /\ \E j \in 1..Len(cells) :
       /\ IsCloned(cells[j])
       /\ ~cells[j].enabled
       /\ cellIdToString(cells[j].cell_id) = currentNetworkId

\* C27: the network getNetworks returns for a clone the conductor reports is
\* named by the local record with the clone's id if there is one and it has a
\* name, else by the conductor's name for the clone, else "Unnamed Network";
\* its passphrase is that of the local record if it has one, else the seed of
\* the clone decoded if the conductor gives the seed, else empty.
C27_FillNameAndPassphrase ==
  [][\A c \in calls :
       (c.op = "init" /\ c.ok /\ c \notin calls')
       => \A j \in 1..Len(c.cells) :
            c.cells[j].type = "cloned"
            => LET id == cellIdToString(c.cells[j].cell_id)
                   recs == {r \in {lsNetworks[k] : k \in 1..Len(lsNetworks)} :
                              r.cellIdString = id}
                   n == networks'[FindIndex(networks', id)]
               IN  /\ Has(networks', id)
                   /\ n.name =
                        IF \E r \in recs : r.name # ""
                        THEN (CHOOSE r \in recs : r.name # "").name
                        ELSE IF c.cells[j].name # "" THEN c.cells[j].name
                        ELSE "Unnamed Network"
                   /\ n.passphrase =
                        IF \E r \in recs : r.passphrase # <<>>
                        THEN (CHOOSE r \in recs : r.passphrase # <<>>).passphrase
                        ELSE IF c.cells[j].network_seed # <<>>
                             THEN networkSeedToPassphrase(c.cells[j].network_seed)
                             ELSE <<>>]_vars

\* A clone reported without a name, whose local record has an empty name, was
\* listed as "Unnamed Network" with the passphrase of the record.
C27_Witness ==
  /\ calls = {}
  /\ Len(networks) = 1
  /\ Len(lsNetworks) = 1
  /\ lsNetworks[1].name = ""
  /\ networks[1].name = UnnamedNetwork
  /\ networks[1].passphrase = lsNetworks[1].passphrase

\* C28: a switchNetwork(id) that finds no cache entry for id shows loading and
\* an empty view and starts its fetch.  When that fetch returns its records
\* while id is displayed, the view is the records, loading is off and the
\* cache holds the records under id; when it fails while id is displayed, the
\* error is set, loading is off and the cache is as it was.
C28_UncachedSwitch ==
  [][/\ \A f \in fetches' \ fetches :
          (IsSwitchFetch(f) /\ f.id \notin DOMAIN cache)
          => /\ f.kind = "foreground"
             /\ currentNetworkId' = f.id
             /\ sLoading' = TRUE
             /\ shares' = EmptyShares
     /\ \A f \in fetches \ fetches' :
          (f.kind = "foreground" /\ currentNetworkId = f.id)
          => IF lastDone'.ok
             THEN /\ shares' = Fetched(f)
                  /\ sLoading' = FALSE
                  /\ f.id \in DOMAIN cache'
                  /\ cache'[f.id] = Fetched(f)
             ELSE /\ sError' # Null
                  /\ sLoading' = FALSE
                  /\ cache' = cache]_vars

\* The fetch of a switch to an uncached network failed while the network was
\* displayed: the error is set, nothing is loading, the view is empty and the
\* cache has no entry for the network.
C28_Witness ==
  /\ lastDone.call.kind = "foreground"
  /\ ~lastDone.ok
  /\ lastDone.displayed = lastDone.call.id
  /\ currentNetworkId = lastDone.call.id
  /\ sError = ErrFetch
  /\ ~sLoading
  /\ shares = EmptyShares
  /\ lastDone.call.id \notin DOMAIN cache

C30_LeaveFailureChangesNothing ==
  [][\A c \in calls :
       (c.op = "leave" /\ ~c.ok /\ c \notin calls')
       => /\ networks' = networks
          /\ activeNetworkId' = activeNetworkId
          /\ clientCell' = clientCell
          /\ lsActive' = lsActive
          /\ lsNetworks' = lsNetworks
          /\ nError' \notin {Null, ""}]_vars

\* The conductor refused to disable an enabled clone: the error is set, the
\* networks are listed with their records, and one of them is active.
C30_Witness ==
  /\ calls = {}
  /\ nextCall = 3
  /\ nError = ErrAuthority
  /\ Len(networks) = 2
  /\ Len(lsNetworks) = 2
  /\ Has(networks, activeNetworkId)
  /\ lsActive = activeNetworkId
  /\ \A j \in 1..Len(cells) : cells[j].type = "cloned" => cells[j].enabled

\* C31: once getRecentShares calls of the shares store have been made and all
\* of them have returned, the loading flag of the shares store is off.
C31_LoadingEndsWithFetches == (nextFetch > 1 /\ fetches = {}) => ~sLoading

\* C32: whenever no request to the conductor and no getRecentShares call is in
\* flight, the network the shares store displays is the active network of the
\* networks store, and the view is empty or holds records of that network.
C32_ViewFollowsActive ==
  (calls = {} /\ fetches = {})
  => /\ currentNetworkId = activeNetworkId
     /\ shares = EmptyShares \/ shares.net = activeNetworkId

\* C33: once the networks store has called the conductor, whenever no request
\* and no getRecentShares call is in flight, the active id in local storage is
\* activeNetworkId, or is empty or absent when there is no active network.
C33_StoredActiveFollowsActive ==
  (nextCall > 1 /\ calls = {} /\ fetches = {})
  => IF Truthy(activeNetworkId) THEN lsActive = activeNetworkId
     ELSE ~Truthy(lsActive)

\* C34: when two fetches of switchNetwork for the same network return their
\* records one after the other while that network is displayed, the view and
\* the cache entry of the network hold the records of the one that was started
\* later, whichever of the two returned last.
C34_LatestLaunchedWins ==
  [][\A f \in fetches \ fetches' :
       ( /\ IsSwitchFetch(f)
         /\ lastDone' = [call |-> f, ok |-> TRUE, displayed |-> f.id]
         /\ IsSwitchFetch(lastDone.call)
         /\ lastDone.ok
         /\ lastDone.call.id = f.id
         /\ lastDone.displayed = f.id )
       => LET newest == IF lastDone.call.n > f.n THEN lastDone.call ELSE f
          IN  /\ shares' = Fetched(newest)
              /\ cache'[f.id] = Fetched(newest)]_vars

\* C35: the network the last successful createNetwork or joinNetwork returned
\* leaves the list of the networks store only when a leaveNetwork for it
\* succeeds or when reset() is called.
C35_CreatedStaysListed ==
  [][(Truthy(nResult) /\ Has(networks, nResult) /\ ~Has(networks', nResult))
     => \/ \E c \in calls \ calls' :
             c.op = "leave" /\ c.ok /\ cellIdToString(c.cell) = nResult
        \/ calls' = calls /\ networks' = <<>> /\ activeNetworkId' = Null]_vars

\* C36: when a getRecentShares call of the shares store fails while the network
\* displayed is not the one displayed when the call was made, the error, the
\* loading flag, the view and the cache stay as they are; this holds for the
\* calls of fetchAndCacheShares, of refreshInBackground and of refresh().
C36_StaleFailureSilent ==
  [][\A f \in fetches \ fetches' :
       ( /\ lastDone' = [call |-> f, ok |-> FALSE, displayed |-> currentNetworkId]
         /\ currentNetworkId # f.displayed )
       => /\ sError' = sError
          /\ sLoading' = sLoading
          /\ shares' = shares
          /\ cache' = cache]_vars

\* C37: when a deleteShare returns while the network displayed is not the one
\* displayed when it was called, the view stays as it is or holds records of
\* the network displayed.
C37_DeleteKeepsOtherView ==
  [][\A f \in fetches \ fetches' :
       (f.kind = "delete" /\ currentNetworkId # f.displayed)
       => shares' = shares \/ shares'.net = currentNetworkId]_vars

\* C38: setActiveNetwork(id) and leaveNetwork(id) for an id no listed network
\* has send nothing to the conductor and leave the list, activeNetworkId, the
\* cell the client addresses, the stored active id, the displayed network, the
\* view and the cache as they are.
C38_UnlistedIdNoOp ==
  [][\A id \in AllIdStrings :
       ( /\ ~Has(networks, id)
         /\ \/ setActiveNetwork(id)
            \/ \E ok \in BOOLEAN : leaveNetwork(id, ok) )
       => /\ UNCHANGED <<calls, nextCall, cells, fetches, nextFetch>>
          /\ UNCHANGED <<networks, activeNetworkId, clientCell, lsActive>>
          /\ UNCHANGED <<currentNetworkId, shares, cache>>]_vars

\* A client is connected and networks are listed, one of them active, while
\* some id is the id of none of them.
C38_Witness ==
  /\ connected
  /\ calls = {}
  /\ Len(networks) > 0
  /\ Has(networks, activeNetworkId)
  /\ lsActive = activeNetworkId
  /\ \E id \in AllIdStrings : ~Has(networks, id)

\* No two records of a list have the same id.
NoTwoRecords(data) ==
  \A i, j \in 1..Len(data) : i # j => data[i].cellIdString # data[j].cellIdString

\* C39: local storage never holds two records with the same id, and when
\* createNetwork or joinNetwork succeeds for an id that has a record, the
\* record is replaced where it stands and the other records stay as they are.
C39_OneRecordPerId ==
  [][/\ NoTwoRecords(lsNetworks)
     /\ NoTwoRecords(lsNetworks')
     /\ \A c \in calls \ calls' :
          ( /\ c.op \in {"create", "join"}
            /\ c.ok
            /\ Has(lsNetworks, cellIdToString(c.cell)) )
          => /\ Len(lsNetworks') = Len(lsNetworks)
             /\ \A k \in 1..Len(lsNetworks) :
                  lsNetworks'[k] =
                    IF lsNetworks[k].cellIdString = cellIdToString(c.cell)
                    THEN [cellIdString |-> cellIdToString(c.cell),
                          name |-> c.name, passphrase |-> c.passphrase]
                    ELSE lsNetworks[k]]_vars

\* The same network was created and then joined under another name: it is
\* listed twice and has one record, which carries the later name.
C39_Witness ==
  /\ calls = {}
  /\ Len(networks) = 2
  /\ networks[1].cellIdString = networks[2].cellIdString
  /\ networks[1].name # networks[2].name
  /\ Len(lsNetworks) = 1
  /\ lsNetworks[1].cellIdString = networks[2].cellIdString
  /\ lsNetworks[1].name = networks[2].name

====
